---- MODULE Spec2Model ----
(***************************************************************************)
(* AquaGen: BaseGAN.train_loop (src/gans_archs/base.py) as a state machine. *)
(* One controller object (an instance of a BaseGAN subclass) on which      *)
(* train_loop is called; pc is the position of the running call inside the *)
(* body of train_loop.                                                     *)
(***************************************************************************)
EXTENDS Integers, Sequences, FiniteSets, TLC

\* ---------------------------------------------------------------- bounds
MaxEpochs == 5        \* epochs of one call
MaxBatches == 2       \* batches per epoch the batch source declares
MaxFreq == 2          \* checkpoint_freq
EpochBudget == 6      \* epochs requested by all calls on the controller together
StepBudget == 4       \* batches (epochs * n_batches) requested by all calls together
MaxCells == 4         \* elements of an input array of a transform

\* ------------------------------------------------------ program constants
max_to_keep == 4
num_examples_to_generate == 16
GridCells == 16

VARIABLES
    hooks,                    \* which hooks the concrete class overrides
    generated_image_dir,      \* TRUE once the setter has been called (else None)
    checkpoint_dir,           \* TRUE once the setter has been called (else None)
    log_dir,                  \* TRUE once the setter has been called (else None)
    ckpts,                    \* ckpt_manager: retained checkpoint tags, oldest save first
    images,                   \* epoch tags of the image files in generated_image_dir
    gen_loss, disc_loss, disc_accuracy,   \* the three keras metrics
    params,                   \* trainable state: updates applied to it in this call
    rng,                      \* noise tensors drawn from tf.random in this call
    pc, err,                  \* position in train_loop; the exception that left it
    n_batches, epochs, checkpoint_freq, noise_vector,   \* arguments of the call
    epoch, b, noise,          \* loop variables and the local noise
    generator_losses, discriminator_losses, discriminator_accuracies,
    report,                   \* what the metrics figure was plotted from (<<>> if none)
    log,                      \* the calls the current run has made, in order
    observed,                 \* per epoch of the current run, the train_step outcomes
    spent,                    \* epochs and batches requested by the calls so far
    call,                     \* "none", then "first" during and after the first call,
                              \* "later" from the second call on
    stop,                     \* a stop request made from outside; train_loop has
                              \* no parameter or field for one and never reads it
    norm                      \* the arrays of a use of utils/image_transforms.py

vars == <<hooks, generated_image_dir, checkpoint_dir, log_dir, ckpts, images,
          gen_loss, disc_loss, disc_accuracy, params, rng, pc, err,
          n_batches, epochs, checkpoint_freq, noise_vector, epoch, b, noise,
          generator_losses, discriminator_losses, discriminator_accuracies,
          report, log, observed, spent, call, stop, norm>>

\* ------------------------------------------------------------ data values
None == [defined |-> FALSE, rows |-> 0, v |-> 0]
Tensor(rows, v) == [defined |-> TRUE, rows |-> rows, v |-> v]

\* noise_vector arguments a caller passes: nothing, or a tensor of some rows
CallerNoise == {None, Tensor(16, 0), Tensor(8, 0)}

\* what one train_step reports to the metrics: generator loss, discriminator
\* loss, and the discriminator's hits out of size predictions
StepOutcomes == {[g |-> 1, d |-> 2, hits |-> 0, size |-> 2],
                 [g |-> 3, d |-> 1, hits |-> 1, size |-> 2]}

HookSets == {"all", "no_train_step", "no_loss"}

\* a call the run makes, with the trainable state it is made in
Ev(op, tag, nz, ok) ==
    [op |-> op, tag |-> tag, noise |-> nz, ok |-> ok, params |-> params]

\* ------------------------------------------------ tf.keras.metrics.Mean
ZeroMetric == [total |-> 0, count |-> 0]

\* a reset that leaves the metric as it was
reset_statesKeeps(m) == m

reset_states(m) == ZeroMetric

update_state(m, value, weight) ==
    [total |-> m.total + value, count |-> m.count + weight]

\* result() is total / count, 0 when nothing was observed; kept as a fraction
result(m) == IF m.count = 0 THEN <<0, 1>> ELSE <<m.total, m.count>>

\* --------------------------------------- tf.train.CheckpointManager.save
RECURSIVE Without(_, _)
Without(s, x) ==
    IF s = <<>> THEN <<>>
    ELSE IF Head(s) = x THEN Without(Tail(s), x)
    ELSE <<Head(s)>> \o Without(Tail(s), x)

RECURSIVE Sweep(_)
Sweep(s) == IF Len(s) > max_to_keep THEN Sweep(Tail(s)) ELSE s

\* a manager that keeps every checkpoint
ManagerSaveKeepAll(s, tag) == Append(Without(s, tag), tag)

\* a tag saved again moves to the end of the queue; then the oldest are swept
ManagerSave(s, tag) == Sweep(Append(Without(s, tag), tag))

\* ------------------------------------------- generate_and_plot_images
EmitError(nz) ==
    IF ~nz.defined THEN "ValueError"
    ELSE IF nz.rows > GridCells THEN "IndexError"
    ELSE IF ~generated_image_dir THEN "TypeError"
    ELSE "none"

\* no stop request has been made
NoStop == [raised |-> FALSE, epoch |-> 0, at |-> 0]

\* no transform of image_transforms.py has been applied to anything
NoArrays == [op |-> "none", x |-> <<>>, arg |-> <<>>, mid |-> <<>>, ret |-> <<>>,
             lo |-> 0, hi |-> 0]

\* ------------------------------------------------------------------ Init
Init ==
    /\ hooks \in HookSets
    /\ generated_image_dir = FALSE
    /\ checkpoint_dir = FALSE
    /\ log_dir = FALSE
    /\ ckpts = <<>>
    /\ images = {}
    /\ gen_loss = ZeroMetric
    /\ disc_loss = ZeroMetric
    /\ disc_accuracy = ZeroMetric
    /\ params = 0
    /\ rng = 0
    /\ pc = "idle"
    /\ err = "none"
    /\ n_batches = 0
    /\ epochs = 0
    /\ checkpoint_freq = 1
    /\ noise_vector = None
    /\ epoch = 0
    /\ b = 0
    /\ noise = None
    /\ generator_losses = <<>>
    /\ discriminator_losses = <<>>
    /\ discriminator_accuracies = <<>>
    /\ report = <<>>
    /\ log = <<>>
    /\ observed = <<>>
    /\ spent = [epochs |-> 0, steps |-> 0]
    /\ call = "none"
    /\ stop = NoStop
    /\ norm = NoArrays

Controller == <<hooks, generated_image_dir, checkpoint_dir, log_dir>>
Stores == <<ckpts, images>>
Metrics == <<gen_loss, disc_loss, disc_accuracy>>
Args == <<n_batches, epochs, checkpoint_freq, noise_vector>>
History == <<generator_losses, discriminator_losses, discriminator_accuracies>>

Returned == pc \in {"done", "raised"}

\* ------------------------------------------------------ directory setters
SetGeneratedImageDir ==
    /\ pc = "idle" /\ ~generated_image_dir
    /\ generated_image_dir' = TRUE
    /\ UNCHANGED <<hooks, checkpoint_dir, log_dir, Stores, Metrics, params, rng,
                   pc, err, Args, epoch, b, noise, History, report, log,
                   observed, spent, call, stop, norm>>

SetCheckpointDir ==
    /\ pc = "idle" /\ ~checkpoint_dir
    /\ checkpoint_dir' = TRUE
    /\ UNCHANGED <<hooks, generated_image_dir, log_dir, Stores, Metrics, params,
                   rng, pc, err, Args, epoch, b, noise, History, report, log,
                   observed, spent, call, stop, norm>>

SetLogDir ==
    /\ pc = "idle" /\ ~log_dir
    /\ log_dir' = TRUE
    /\ UNCHANGED <<hooks, generated_image_dir, checkpoint_dir, Stores, Metrics,
                   params, rng, pc, err, Args, epoch, b, noise, History, report,
                   log, observed, spent, call, stop, norm>>

\* ------------------------------------------------------------ train_loop
\* the call and lines 101-107
StartRun(n, E, F, nv) ==
    /\ spent.epochs + E <= EpochBudget
    /\ spent.steps + E * n <= StepBudget
    /\ spent' = [epochs |-> spent.epochs + E, steps |-> spent.steps + E * n]
    /\ call' = IF call = "none" THEN "first" ELSE "later"
    /\ params' = 0 /\ rng' = 0
    /\ n_batches' = n /\ epochs' = E /\ checkpoint_freq' = F /\ noise_vector' = nv
    /\ generator_losses' = <<>>
    /\ discriminator_losses' = <<>>
    /\ discriminator_accuracies' = <<>>
    /\ noise' = nv
    /\ epoch' = 0 /\ b' = 0
    /\ pc' = "loop" /\ err' = "none"
    /\ report' = <<>> /\ log' = <<>> /\ observed' = <<>>
    /\ UNCHANGED <<Controller, Stores, Metrics, stop, norm>>

\* lines 109-113: the next epoch starts, the three metrics are reset
EpochBegin ==
    /\ pc = "loop" /\ epoch < epochs
    /\ gen_loss' = reset_states(gen_loss)
    /\ disc_loss' = reset_states(disc_loss)
    /\ disc_accuracy' = reset_states(disc_accuracy)
    /\ b' = 0
    /\ pc' = "batch"
    /\ log' = Append(log, Ev("reset", epoch + 1, None, TRUE))
    /\ observed' = Append(observed, <<>>)
    /\ UNCHANGED <<Controller, Stores, params, rng, err, Args, epoch, noise,
                   History, report, spent, call, stop, norm>>

\* the batch loop run over one batch less than declared
BatchesLeftOffByOne == b < n_batches - 1

\* line 115: range(batch_generator.n_batches) is not exhausted
BatchesLeft == b < n_batches

\* line 117: next(batch_generator) returns a batch
PullBatch ==
    /\ pc = "batch" /\ BatchesLeft
    /\ pc' = "step"
    /\ log' = Append(log, Ev("pull", epoch + 1, None, TRUE))
    /\ UNCHANGED <<Controller, Stores, Metrics, params, rng, err, Args, epoch, b,
                   noise, History, report, observed, spent, call, stop, norm>>

\* the interrupted epoch's partial means recorded before the error leaves
PullRaisesPartialAppend ==
    /\ pc = "batch" /\ BatchesLeft
    /\ pc' = "raised" /\ err' = "IOError"
    /\ generator_losses' = Append(generator_losses, result(gen_loss))
    /\ discriminator_losses' = Append(discriminator_losses, result(disc_loss))
    /\ discriminator_accuracies' =
           Append(discriminator_accuracies, result(disc_accuracy))
    /\ log' = Append(log, Ev("pull", epoch + 1, None, FALSE))
    /\ UNCHANGED <<Controller, Stores, Metrics, params, rng, Args, epoch, b,
                   noise, report, observed, spent, call, stop, norm>>

\* line 117: next(batch_generator) raises; nothing in train_loop catches it
PullRaises ==
    /\ pc = "batch" /\ BatchesLeft
    /\ pc' = "raised" /\ err' = "IOError"
    /\ log' = Append(log, Ev("pull", epoch + 1, None, FALSE))
    /\ UNCHANGED <<Controller, Stores, Metrics, params, rng, Args, epoch, b,
                   noise, History, report, observed, spent, call, stop, norm>>

\* line 118 with a train_step the subclass provides
TrainStep(o) ==
    /\ pc = "step" /\ hooks = "all"
    /\ gen_loss' = update_state(gen_loss, o.g, 1)
    /\ disc_loss' = update_state(disc_loss, o.d, 1)
    /\ disc_accuracy' = update_state(disc_accuracy, o.hits, o.size)
    /\ params' = params + 1
    /\ b' = b + 1
    /\ pc' = "batch"
    /\ log' = Append(log, Ev("step", epoch + 1, None, TRUE))
    /\ observed' = [observed EXCEPT ![epoch + 1] = Append(@, o)]
    /\ UNCHANGED <<Controller, Stores, rng, err, Args, epoch, noise, History,
                   report, spent, call, stop, norm>>

\* line 118 with a hook of lines 91-98 left as in the base class: the base
\* train_step(self, input) does not take the second argument it is given, a
\* base loss hook raises NotImplementedError when the train_step calls it
TrainStepRaises ==
    /\ pc = "step" /\ hooks # "all"
    /\ pc' = "raised"
    /\ err' = IF hooks = "no_train_step" THEN "TypeError" ELSE "NotImplementedError"
    /\ log' = Append(log, Ev("step", epoch + 1, None, FALSE))
    /\ UNCHANGED <<Controller, Stores, Metrics, params, rng, Args, epoch, b,
                   noise, History, report, observed, spent, call, stop, norm>>

\* the end of the batch loop without the appends of lines 127-129
EpochEndNoAppend ==
    /\ pc = "batch" /\ ~BatchesLeft
    /\ pc' = "noise"
    /\ UNCHANGED <<Controller, Stores, Metrics, params, rng, err, Args, epoch, b,
                   noise, History, report, log, observed, spent, call, stop, norm>>

\* the appends of lines 127-128 without the one of line 129
EpochEndNoAccuracy ==
    /\ pc = "batch" /\ ~BatchesLeft
    /\ generator_losses' = Append(generator_losses, result(gen_loss))
    /\ discriminator_losses' = Append(discriminator_losses, result(disc_loss))
    /\ pc' = "noise"
    /\ log' = Append(log, Ev("append", epoch + 1, None, TRUE))
    /\ UNCHANGED <<Controller, Stores, Metrics, params, rng, err, Args, epoch, b,
                   noise, discriminator_accuracies, report, observed, spent, call, stop, norm>>

\* lines 120-129: the metrics are read and appended to the three lists
EpochEnd ==
    /\ pc = "batch" /\ ~BatchesLeft
    /\ generator_losses' = Append(generator_losses, result(gen_loss))
    /\ discriminator_losses' = Append(discriminator_losses, result(disc_loss))
    /\ discriminator_accuracies' =
           Append(discriminator_accuracies, result(disc_accuracy))
    /\ pc' = "noise"
    /\ log' = Append(log, Ev("append", epoch + 1, None, TRUE))
    /\ UNCHANGED <<Controller, Stores, Metrics, params, rng, err, Args, epoch, b,
                   noise, report, observed, spent, call, stop, norm>>

\* the test of line 131 made on the local noise instead of the argument
ChooseNoiseOnce ==
    /\ pc = "noise"
    /\ IF noise = None
       THEN /\ noise' = Tensor(num_examples_to_generate, rng + 1)
            /\ rng' = rng + 1
            /\ log' = Append(log, Ev("sample", epoch + 1,
                                     Tensor(num_examples_to_generate, rng + 1), TRUE))
       ELSE UNCHANGED <<noise, rng, log>>
    /\ pc' = "emit"
    /\ UNCHANGED <<Controller, Stores, Metrics, params, err, Args, epoch, b,
                   History, report, observed, spent, call, stop, norm>>

\* lines 131-132
ChooseNoise ==
    /\ pc = "noise"
    /\ IF noise_vector = None
       THEN /\ noise' = Tensor(num_examples_to_generate, rng + 1)
            /\ rng' = rng + 1
            /\ log' = Append(log, Ev("sample", epoch + 1,
                                     Tensor(num_examples_to_generate, rng + 1), TRUE))
       ELSE UNCHANGED <<noise, rng, log>>
    /\ pc' = "emit"
    /\ UNCHANGED <<Controller, Stores, Metrics, params, err, Args, epoch, b,
                   History, report, observed, spent, call, stop, norm>>

\* the generator called with training=True: the emission updates its state
EmitTrains(tag, next) ==
    /\ log' = Append(log, Ev("emit", tag, noise, EmitError(noise) = "none"))
    /\ params' = params + 1
    /\ IF EmitError(noise) = "none"
       THEN /\ images' = images \cup {tag}
            /\ pc' = next
            /\ err' = err
       ELSE /\ images' = images
            /\ pc' = "raised"
            /\ err' = EmitError(noise)
    /\ UNCHANGED <<Controller, ckpts, Metrics, rng, Args, epoch, b, noise,
                   History, report, observed, spent, call, stop, norm>>

\* generate_and_plot_images(model, tag, input), lines 188-199, then pc = next
Emit(tag, next) ==
    /\ log' = Append(log, Ev("emit", tag, noise, EmitError(noise) = "none"))
    /\ IF EmitError(noise) = "none"
       THEN /\ images' = images \cup {tag}
            /\ pc' = next
            /\ err' = err
       ELSE /\ images' = images
            /\ pc' = "raised"
            /\ err' = EmitError(noise)
    /\ UNCHANGED <<Controller, ckpts, Metrics, params, rng, Args, epoch, b, noise,
                   History, report, observed, spent, call, stop, norm>>

\* line 135
EmitEpoch == pc = "emit" /\ Emit(epoch + 1, "ckpt")

\* the cadence test made on the 0-based loop index
AtCadenceOffByOne == epoch % checkpoint_freq = 0

\* line 137
AtCadence == (epoch + 1) % checkpoint_freq = 0

\* lines 137-140 when the epoch is no multiple of checkpoint_freq
SkipCheckpoint ==
    /\ pc = "ckpt" /\ ~AtCadence
    /\ epoch' = epoch + 1
    /\ pc' = "loop"
    /\ UNCHANGED <<Controller, Stores, Metrics, params, rng, err, Args, b, noise,
                   History, report, log, observed, spent, call, stop, norm>>

\* lines 137-140 when it is one and the manager writes the checkpoint
SaveCheckpoint ==
    /\ pc = "ckpt" /\ AtCadence
    /\ checkpoint_dir
    /\ ckpts' = ManagerSave(ckpts, epoch + 1)
    /\ log' = Append(log, Ev("save", epoch + 1, None, TRUE))
    /\ epoch' = epoch + 1
    /\ pc' = "loop"
    /\ UNCHANGED <<Controller, images, Metrics, params, rng, err, Args, b, noise,
                   History, report, observed, spent, call, stop, norm>>

\* line 138 when the write fails: the exception leaves train_loop
SaveRaises ==
    /\ pc = "ckpt" /\ AtCadence
    /\ checkpoint_dir
    /\ log' = Append(log, Ev("save", epoch + 1, None, FALSE))
    /\ pc' = "raised" /\ err' = "StorageFailure"
    /\ UNCHANGED <<Controller, Stores, Metrics, params, rng, Args, epoch, b,
                   noise, History, report, observed, spent, call, stop, norm>>

\* line 138 when checkpoint_dir was never set: self.ckpt_manager does not exist
SaveNoManager ==
    /\ pc = "ckpt" /\ AtCadence
    /\ ~checkpoint_dir
    /\ pc' = "raised" /\ err' = "AttributeError"
    /\ UNCHANGED <<Controller, Stores, Metrics, params, rng, Args, epoch, b,
                   noise, History, report, log, observed, spent, call, stop, norm>>

\* line 109: range(epochs) is exhausted
LoopExit ==
    /\ pc = "loop" /\ epoch = epochs
    /\ pc' = "final"
    /\ UNCHANGED <<Controller, Stores, Metrics, params, rng, err, Args, epoch, b,
                   noise, History, report, log, observed, spent, call, stop, norm>>

\* the loop's end without the emission that follows it
EmitFinalSkipped ==
    /\ pc = "final"
    /\ pc' = "report"
    /\ UNCHANGED <<Controller, Stores, Metrics, params, rng, err, Args, epoch, b,
                   noise, History, report, log, observed, spent, call, stop, norm>>

\* the emission after the loop made on noise drawn anew
EmitFinalFreshNoise ==
    /\ pc = "final"
    /\ noise' = Tensor(num_examples_to_generate, rng + 1)
    /\ rng' = rng + 1
    /\ log' = Append(log, Ev("emit", epochs, noise',
                             generated_image_dir))
    /\ IF generated_image_dir
       THEN images' = images \cup {epochs} /\ pc' = "report" /\ err' = err
       ELSE images' = images /\ pc' = "raised" /\ err' = "TypeError"
    /\ UNCHANGED <<Controller, ckpts, Metrics, params, Args, epoch, b,
                   History, report, observed, spent, call, stop, norm>>

\* line 143
EmitFinal == pc = "final" /\ Emit(epochs, "report")

\* lines 145-165
Report ==
    /\ pc = "report"
    /\ report' = IF log_dir THEN <<History>> ELSE <<>>
    /\ pc' = "done"
    /\ UNCHANGED <<Controller, Stores, Metrics, params, rng, err, Args, epoch, b,
                   noise, History, log, observed, spent, call, stop, norm>>

\* the first call of train_loop on the controller
Call ==
    /\ pc = "idle"
    /\ \E n \in 0..MaxBatches, E \in 0..MaxEpochs, F \in 1..MaxFreq,
          nv \in CallerNoise : StartRun(n, E, F, nv)

\* a further call on the same controller, after the previous one has returned
\* or raised, with the same batch generator and noise_vector argument
CallAgain ==
    /\ Returned
    /\ \E E \in 0..MaxEpochs, F \in 1..MaxFreq :
          StartRun(n_batches, E, F, noise_vector)

\* one call of train_loop on a controller configured in any way
Next ==
    \/ SetGeneratedImageDir
    \/ SetCheckpointDir
    \/ SetLogDir
    \/ Call
    \/ EpochBegin
    \/ PullBatch
    \/ PullRaises
    \/ \E o \in StepOutcomes : TrainStep(o)
    \/ TrainStepRaises
    \/ EpochEnd
    \/ ChooseNoise
    \/ EmitEpoch
    \/ SkipCheckpoint
    \/ SaveCheckpoint
    \/ SaveRaises
    \/ SaveNoManager
    \/ LoopExit
    \/ EmitFinal
    \/ Report

Spec == Init /\ [][Next]_vars

\* successive calls of train_loop on a controller whose class overrides the
\* hooks and whose three directories have been set (a state Spec reaches);
\* TrainStepRaises and SaveNoManager are never enabled there
InitConfigured ==
    /\ hooks = "all"
    /\ generated_image_dir = TRUE
    /\ checkpoint_dir = TRUE
    /\ log_dir = TRUE
    /\ ckpts = <<>>
    /\ images = {}
    /\ gen_loss = ZeroMetric
    /\ disc_loss = ZeroMetric
    /\ disc_accuracy = ZeroMetric
    /\ params = 0
    /\ rng = 0
    /\ pc = "idle"
    /\ err = "none"
    /\ n_batches = 0
    /\ epochs = 0
    /\ checkpoint_freq = 1
    /\ noise_vector = None
    /\ epoch = 0
    /\ b = 0
    /\ noise = None
    /\ generator_losses = <<>>
    /\ discriminator_losses = <<>>
    /\ discriminator_accuracies = <<>>
    /\ report = <<>>
    /\ log = <<>>
    /\ observed = <<>>
    /\ spent = [epochs |-> 0, steps |-> 0]
    /\ call = "none"
    /\ stop = NoStop
    /\ norm = NoArrays

NextRuns ==
    \/ Call
    \/ CallAgain
    \/ EpochBegin
    \/ PullBatch
    \/ PullRaises
    \/ \E o \in StepOutcomes : TrainStep(o)
    \/ EpochEnd
    \/ ChooseNoise
    \/ EmitEpoch
    \/ SkipCheckpoint
    \/ SaveCheckpoint
    \/ SaveRaises
    \/ LoopExit
    \/ EmitFinal
    \/ Report

SpecRuns == InitConfigured /\ [][NextRuns]_vars

\* ----------------------------------------------------- a stop request
TrainVars == <<hooks, generated_image_dir, checkpoint_dir, log_dir, ckpts, images,
               gen_loss, disc_loss, disc_accuracy, params, rng, pc, err,
               n_batches, epochs, checkpoint_freq, noise_vector, epoch, b, noise,
               generator_losses, discriminator_losses, discriminator_accuracies,
               report, log, observed, spent, call>>

\* somebody outside asks the running call to stop while it is inside the
\* batch loop of an epoch that has a further batch to pull after the current
\* one; the request is noted with the epoch and the place in the run at which
\* it was made
RequestStop ==
    /\ pc \in {"batch", "step"} /\ b + 1 < n_batches
    /\ ~stop.raised
    /\ stop' = [raised |-> TRUE, epoch |-> epoch + 1, at |-> Len(log)]
    /\ UNCHANGED <<TrainVars, norm>>

\* one call of train_loop during which a stop may be requested
NextStop == Next \/ RequestStop

SpecStop == Init /\ [][NextStop]_vars

\* -------------------------------------------------- image_transforms.py
\* Numbers are exact fractions <<numerator, denominator>>.  A division keeps
\* the denominator positive; a zero divided by zero is <<0, 0>>, numpy's nan,
\* and every operation on a nan gives a nan.
Frac(n) == <<n, 1>>
IsNaN(f) == f[2] = 0
FAdd(f, g) == <<f[1] * g[2] + g[1] * f[2], f[2] * g[2]>>
FSub(f, g) == <<f[1] * g[2] - g[1] * f[2], f[2] * g[2]>>
FMul(f, g) == <<f[1] * g[1], f[2] * g[2]>>
FDiv(f, g) ==
    IF g[1] * f[2] < 0 THEN <<0 - f[1] * g[2], 0 - f[2] * g[1]>>
    ELSE <<f[1] * g[2], f[2] * g[1]>>
FLess(f, g) == f[1] * g[2] < g[1] * f[2]
\* numpy's == on two numbers: a nan equals nothing
FEq(f, g) == ~IsNaN(f) /\ ~IsNaN(g) /\ f[1] * g[2] = g[1] * f[2]

\* the values an input array is filled with, and the target bounds a caller
\* passes (the defaults -1, 0 and 1 among them)
Values == {-1, 0, 2}
Targets == {-1, 0, 1, 255}

\* a 2-D array: its dtype and its rows
Array(dtype, a) == [dtype |-> dtype, a |-> a]
Shapes == {s \in (1..MaxCells) \X (1..MaxCells) : s[1] * s[2] <= MaxCells}
Arrays ==
    UNION {{Array(t, a) : t \in {"int", "float"},
                          a \in [1..s[1] -> [1..s[2] -> {Frac(v) : v \in Values}]]}
           : s \in Shapes}

Cells(A) == {<<r, c>> : r \in DOMAIN A.a, c \in 1..Len(A.a[1])}
At(A, rc) == A.a[rc[1]][rc[2]]
\* elementwise arithmetic of an array with a scalar gives a new array
Elementwise(Op(_), dtype, A) ==
    Array(dtype, [r \in DOMAIN A.a |-> [c \in DOMAIN A.a[r] |-> Op(A.a[r][c])]])

\* ndarray.max() and ndarray.min() reduce over the whole array
ArrayMax(A) == CHOOSE m \in {At(A, rc) : rc \in Cells(A)} :
                   \A rc \in Cells(A) : ~FLess(m, At(A, rc))
ArrayMin(A) == CHOOSE m \in {At(A, rc) : rc \in Cells(A)} :
                   \A rc \in Cells(A) : ~FLess(At(A, rc), m)

\* scale_to_range(matrix, new_min, new_max): the argument is only read
scale_to_range(matrix, new_min, new_max) ==
    LET original_max == ArrayMax(matrix)
        original_min == ArrayMin(matrix)
        normalized == Elementwise(LAMBDA v : FDiv(FSub(v, original_min),
                                                  FSub(original_max, original_min)),
                                  "float", matrix)
        scaled == Elementwise(LAMBDA v : FAdd(FMul(v, Frac(new_max - new_min)),
                                              Frac(new_min)),
                              "float", normalized)
    IN  [data |-> matrix, ret |-> scaled, err |-> "none"]

RECURSIVE FSum(_)
FSum(s) == IF s = <<>> THEN Frac(0) ELSE FAdd(s[1], FSum(Tail(s)))
RowMean(row) == FDiv(FSum(row), Frac(Len(row)))
\* np.std squared: the mean of the squared deviations of the row
RowVar(row) ==
    RowMean([c \in DOMAIN row |->
                FMul(FSub(row[c], RowMean(row)), FSub(row[c], RowMean(row)))])

\* normalize_to_zero_mean_unit_variance(data, clip_std): an element of the
\* result is dev / (sqrt(var) * div), kept as its three exact parts
normalize_to_zero_mean_unit_variance(data, clip_std) ==
    LET normalized_data ==
            [r \in DOMAIN data.a |-> [c \in DOMAIN data.a[r] |->
                [dev |-> FSub(data.a[r][c], RowMean(data.a[r])),
                 var |-> RowVar(data.a[r]),
                 div |-> IF clip_std THEN 3 ELSE 1]]]
    IN  [data |-> data, ret |-> Array("float", normalized_data), err |-> "none"]

\* unscale_data without the halving of line 35
unscale_dataNoHalving(data, min_val, max_val) ==
    LET plus1 == Elementwise(LAMBDA v : FAdd(v, Frac(1)), data.dtype, data)
    IN  IF data.dtype = "int"
        THEN [data |-> plus1, ret |-> <<>>, err |-> "UFuncTypeError"]
        ELSE [data |-> plus1,
              ret |-> Elementwise(LAMBDA v : FAdd(FMul(v, Frac(max_val - min_val)),
                                                  Frac(min_val)),
                                  "float", plus1),
              err |-> "none"]

\* unscale_data(data, min_val, max_val): `data += 1` and `data /= 2` work in
\* place on the caller's array; an integer array takes the addition and then
\* refuses the true division; the returned product is a new array
unscale_data(data, min_val, max_val) ==
    LET plus1 == Elementwise(LAMBDA v : FAdd(v, Frac(1)), data.dtype, data)
        halved == Elementwise(LAMBDA v : FDiv(v, Frac(2)), data.dtype, plus1)
    IN  IF data.dtype = "int"
        THEN [data |-> plus1, ret |-> <<>>, err |-> "UFuncTypeError"]
        ELSE [data |-> halved,
              ret |-> Elementwise(LAMBDA v : FAdd(FMul(v, Frac(max_val - min_val)),
                                                  Frac(min_val)),
                                  "float", halved),
              err |-> "none"]

\* the caller holds one array x and has applied nothing to it yet
Holding(x) == [op |-> "none", x |-> x, arg |-> x, mid |-> <<>>, ret |-> <<>>,
               lo |-> 0, hi |-> 0, err |-> "none"]

\* one application: x is the array as it was before the call, arg the same
\* array object after the call, ret what the call returned
Applied(op, out, lo, hi) ==
    [op |-> op, x |-> norm.x, arg |-> out.data, mid |-> <<>>, ret |-> out.ret,
     lo |-> lo, hi |-> hi, err |-> out.err]

ScaleToRange(new_min, new_max) ==
    /\ norm.op = "none"
    /\ norm' = Applied("scale_to_range",
                       scale_to_range(norm.x, new_min, new_max), new_min, new_max)
    /\ UNCHANGED <<TrainVars, stop>>

Normalize(clip_std) ==
    /\ norm.op = "none"
    /\ norm' = Applied(IF clip_std THEN "normalize_clip" ELSE "normalize",
                       normalize_to_zero_mean_unit_variance(norm.x, clip_std), 0, 0)
    /\ UNCHANGED <<TrainVars, stop>>

UnscaleData(min_val, max_val) ==
    /\ norm.op = "none"
    /\ norm' = Applied("unscale_data",
                       unscale_data(norm.x, min_val, max_val), min_val, max_val)
    /\ UNCHANGED <<TrainVars, stop>>

\* unscale_data(scale_to_range(x, -1, 1), min_val, max_val): mid is the
\* intermediate array after unscale_data has worked on it
UnscaleOfScale(min_val, max_val) ==
    /\ norm.op = "none"
    /\ LET fwd == scale_to_range(norm.x, -1, 1)
           back == unscale_data(fwd.ret, min_val, max_val)
       IN  norm' = [op |-> "unscale_of_scale", x |-> norm.x, arg |-> fwd.data,
                    mid |-> back.data, ret |-> back.ret,
                    lo |-> min_val, hi |-> max_val, err |-> back.err]
    /\ UNCHANGED <<TrainVars, stop>>

InitNorm ==
    /\ hooks = "all"
    /\ generated_image_dir = FALSE
    /\ checkpoint_dir = FALSE
    /\ log_dir = FALSE
    /\ ckpts = <<>>
    /\ images = {}
    /\ gen_loss = ZeroMetric
    /\ disc_loss = ZeroMetric
    /\ disc_accuracy = ZeroMetric
    /\ params = 0
    /\ rng = 0
    /\ pc = "idle"
    /\ err = "none"
    /\ n_batches = 0
    /\ epochs = 0
    /\ checkpoint_freq = 1
    /\ noise_vector = None
    /\ epoch = 0
    /\ b = 0
    /\ noise = None
    /\ generator_losses = <<>>
    /\ discriminator_losses = <<>>
    /\ discriminator_accuracies = <<>>
    /\ report = <<>>
    /\ log = <<>>
    /\ observed = <<>>
    /\ spent = [epochs |-> 0, steps |-> 0]
    /\ call = "none"
    /\ stop = NoStop
    /\ norm \in {Holding(x) : x \in Arrays}

NextNorm ==
    \/ \E lo \in Targets, hi \in Targets : ScaleToRange(lo, hi)
    \/ \E clip_std \in BOOLEAN : Normalize(clip_std)
    \/ \E lo \in Targets, hi \in Targets : UnscaleData(lo, hi)
    \/ \E lo \in Targets, hi \in Targets : UnscaleOfScale(lo, hi)

SpecNorm == InitNorm /\ [][NextNorm]_vars

\* ------------------------------------------------------------- the claims
Range(s) == {s[i] : i \in 1..Len(s)}
IsPull(e) == e.op = "pull"
IsEmit(e) == e.op = "emit"
IsSave(e) == e.op = "save"
IsSample(e) == e.op = "sample"
Tags(s) == [i \in 1..Len(s) |-> s[i].tag]
Pulls == SelectSeq(log, IsPull)
Emits == SelectSeq(log, IsEmit)
Saves == SelectSeq(log, IsSave)
Samples == SelectSeq(log, IsSample)
Entered == pc # "idle"

\* C1: a call with an epoch count of 0 pulls no batch, saves no checkpoint,
\* emits no sample, does not raise and leaves the history empty.
C1_ZeroEpochsIsNoOp ==
    (Entered /\ epochs = 0) =>
        /\ Pulls = <<>> /\ Saves = <<>> /\ Emits = <<>>
        /\ pc # "raised"
        /\ generator_losses = <<>>
        /\ discriminator_losses = <<>>
        /\ discriminator_accuracies = <<>>

\* C2: a call that completes has saved a checkpoint exactly once for each
\* epoch e in 1..epochs with e % checkpoint_freq = 0, tagged e, in increasing
\* order of e, and for no other epoch.
C2_SavesOnCadence ==
    pc = "done" =>
        /\ Tags(Saves) = [i \in 1..(epochs \div checkpoint_freq) |-> i * checkpoint_freq]
        /\ \A i \in 1..Len(Saves) : Saves[i].ok

\* a completed call of 5 epochs with cadence 2: the cadence does not divide
\* the epoch count, two saves were due
C2_Witness == pc = "done" /\ epochs = 5 /\ checkpoint_freq = 2 /\ Len(Saves) = 2

\* C3: a call of E >= 1 epochs that completes has made exactly E + 1 sample
\* emissions: one per epoch tagged 1..E in increasing order, then one more
\* tagged E.
C3_EmissionsPerEpochPlusFinal ==
    (pc = "done" /\ epochs >= 1) =>
        Tags(Emits) = [i \in 1..(epochs + 1) |-> IF i <= epochs THEN i ELSE epochs]

C3_Witness == pc = "done" /\ epochs = 3 /\ Len(Emits) = 4

IsOkSave(e) == e.op = "save" /\ e.ok
OkSaves == SelectSeq(log, IsOkSave)
LastN(s, k) == IF Len(s) <= k THEN s ELSE SubSeq(s, Len(s) - k + 1, Len(s))
Evicted == Range(ckpts) \ Range(ckpts')

\* C4 as stated: at most 4 checkpoints are retained, and a checkpoint that is
\* evicted has the lowest epoch tag of all (so the retained ones are the
\* highest-tagged), also across successive calls.
C4_LowestTagEvicted ==
    [][/\ Len(ckpts') <= max_to_keep
       /\ \A t \in Evicted : \A u \in Range(ckpts) \cup Range(ckpts') : t <= u]_vars

\* C4 as amended: at most 4 checkpoints are retained in every state, also
\* across successive calls; the checkpoint evicted is the least recently
\* saved one (a tag saved again counts as saved anew). In the first call on
\* the controller that one has the lowest epoch tag, and the retained
\* checkpoints are the (at most 4) highest-tagged of those the call saved.
C4_OldestSaveEvicted ==
    [][/\ Len(ckpts') <= max_to_keep
       /\ \A t \in Evicted : t = Head(ckpts)
       /\ call' = "first" =>
              /\ \A t \in Evicted : \A u \in Range(ckpts) \cup Range(ckpts') : t <= u
              /\ ckpts' = LastN(Tags(OkSaves'), max_to_keep)]_vars

\* a later call has saved tag 1 into a full store: tag 2 went, tag 1 stays
C4_Witness == call = "later" /\ ckpts = <<3, 4, 5, 1>>

\* C5: when the batch source raises in epoch k, the error leaves train_loop,
\* the history holds exactly the k - 1 summaries of the completed epochs and
\* nothing for epoch k, and no emission or save was made for epoch k.
C5_PullErrorPropagates ==
    \A i \in 1..Len(log) :
        (log[i].op = "pull" /\ ~log[i].ok) =>
            /\ i = Len(log)
            /\ pc = "raised" /\ err = "IOError"
            /\ log[i].tag = epoch + 1
            /\ Len(generator_losses) = epoch
            /\ Len(discriminator_losses) = epoch
            /\ Len(discriminator_accuracies) = epoch
            /\ \A j \in 1..Len(log) :
                   log[j].op \in {"append", "sample", "emit", "save"}
                       => log[j].tag <= epoch

\* the source raised on the second batch of the second epoch
C5_Witness == pc = "raised" /\ err = "IOError" /\ epoch = 1 /\ b = 1

\* C6: a checkpoint save that fails does not end the call: the epoch loop
\* goes on through the remaining epochs.
C6_SaveFailureCaught ==
    \A i \in 1..Len(log) : (log[i].op = "save" /\ ~log[i].ok) => pc # "raised"

\* C7: in every epoch the summary is appended before the epoch's emission and
\* the emission is made before the epoch's save: when a save for epoch e is
\* attempted, failing or not, the history holds the entry for e and the
\* emission tagged e has been made.
C7_AppendThenEmitThenSave ==
    /\ \A i \in 1..Len(log) :
          log[i].op = "save" =>
              /\ Len(generator_losses) >= log[i].tag
              /\ Len(discriminator_losses) >= log[i].tag
              /\ Len(discriminator_accuracies) >= log[i].tag
              /\ \E j, k \in 1..Len(log) :
                     /\ j < k /\ k < i
                     /\ log[j].op = "append" /\ log[j].tag = log[i].tag
                     /\ log[k].op = "emit" /\ log[k].tag = log[i].tag
    /\ \A i \in 1..Len(log) :
          (log[i].op = "emit" /\ log[i].tag >= 1) =>
              /\ Len(generator_losses) >= log[i].tag
              /\ \E j \in 1..(i - 1) :
                     log[j].op = "append" /\ log[j].tag = log[i].tag

\* the save of epoch 2 was attempted and failed
C7_Witness == \E i \in 1..Len(log) : log[i].op = "save" /\ ~log[i].ok /\ log[i].tag = 2

\* C8: a model that does not override generator_loss, discriminator_loss or
\* train_step fails with NotImplementedError before train_loop has reset a
\* metric, pulled a batch or run a step.
C8_MissingHookFailsUpFront ==
    hooks # "all" =>
        \A i \in 1..Len(log) : log[i].op \notin {"reset", "pull", "step"}

RECURSIVE Sum(_, _)
Sum(s, f) ==
    IF s = <<>> THEN 0
    ELSE (CASE f = "g" -> Head(s).g
            [] f = "d" -> Head(s).d
            [] f = "hits" -> Head(s).hits
            [] f = "size" -> Head(s).size) + Sum(Tail(s), f)

SameFraction(p, q) == p[1] * q[2] = q[1] * p[2] /\ p[2] > 0 /\ q[2] > 0

\* the mean of weighted observations: their sum over their weight, 0 if none
MeanOf(num, den) == IF den = 0 THEN <<0, 1>> ELSE <<num, den>>

\* C9: the three metrics are reset at the start of every epoch: the summary
\* appended for epoch k is computed from exactly the observations of the
\* batch steps of epoch k (the arithmetic mean of its generator losses and
\* of its discriminator losses, its hits over its predictions), and inside
\* an epoch the metrics hold that epoch's observations only.
C9_SummaryOfThisEpochOnly ==
    /\ Len(generator_losses) <= Len(observed)
    /\ Len(discriminator_losses) = Len(generator_losses)
    /\ Len(discriminator_accuracies) = Len(generator_losses)
    /\ \A k \in 1..Len(generator_losses) :
          /\ SameFraction(generator_losses[k],
                          MeanOf(Sum(observed[k], "g"), Len(observed[k])))
          /\ SameFraction(discriminator_losses[k],
                          MeanOf(Sum(observed[k], "d"), Len(observed[k])))
          /\ SameFraction(discriminator_accuracies[k],
                          MeanOf(Sum(observed[k], "hits"), Sum(observed[k], "size")))
    /\ pc \in {"batch", "step"} =>
          /\ gen_loss = [total |-> Sum(observed[epoch + 1], "g"),
                         count |-> Len(observed[epoch + 1])]
          /\ disc_loss = [total |-> Sum(observed[epoch + 1], "d"),
                          count |-> Len(observed[epoch + 1])]
          /\ disc_accuracy = [total |-> Sum(observed[epoch + 1], "hits"),
                              count |-> Sum(observed[epoch + 1], "size")]

\* two epochs of two batches each with different losses have been summarised
C9_Witness ==
    /\ Len(generator_losses) = 2
    /\ Len(observed[1]) = 2 /\ Len(observed[2]) = 2
    /\ Sum(observed[1], "g") # Sum(observed[2], "g")

\* C10: with a noise_vector argument every emission of the call gets that
\* vector and no noise is sampled; without one a fresh noise tensor is
\* sampled exactly once per epoch, after the epoch's summary is appended,
\* and the epoch's emission uses it.
C10_NoiseChoice ==
    /\ noise_vector # None =>
          /\ Samples = <<>>
          /\ \A i \in 1..Len(Emits) : Emits[i].noise = noise_vector
    /\ noise_vector = None =>
          /\ \A i \in 1..Len(log) :
                (log[i].op = "append" /\ i < Len(log)) =>
                    log[i + 1].op = "sample" /\ log[i + 1].tag = log[i].tag
          /\ \A i \in 1..Len(log) :
                log[i].op = "sample" =>
                    /\ i > 1 /\ log[i - 1].op = "append"
                    /\ log[i - 1].tag = log[i].tag
                    /\ log[i].noise.defined
                    /\ i < Len(log) =>
                           /\ log[i + 1].op = "emit"
                           /\ log[i + 1].tag = log[i].tag
                           /\ log[i + 1].noise = log[i].noise
          /\ \A i, j \in 1..Len(Samples) :
                i # j => /\ Samples[i].noise # Samples[j].noise
                         /\ Samples[i].tag # Samples[j].tag
          /\ pc = "done" => Len(Samples) = epochs

\* a call without noise_vector has completed two epochs
C10_Witness == pc = "done" /\ noise_vector = None /\ epochs = 2 /\ Len(Samples) = 2

IsOkEmit(e) == e.op = "emit" /\ e.ok
Written == {e.tag : e \in Range(SelectSeq(log, IsOkEmit))}

\* C11: after a call of E >= 0 epochs has completed, the epoch tags of the
\* image artifacts the call has written are exactly 1..E.
C11_OneArtifactPerEpoch ==
    pc = "done" => /\ Written = 1..epochs
                   /\ Written \subseteq images

\* C12: a call on a controller whose checkpoint directory or generated-samples
\* directory was never set fails before any batch is pulled or any step is
\* run, and with the checkpoint directory unset it never completes.
C12_UnsetDirectoryFailsUpFront ==
    /\ (Entered /\ (~checkpoint_dir \/ ~generated_image_dir)) =>
           \A i \in 1..Len(log) : log[i].op \notin {"pull", "step"}
    /\ (Entered /\ ~checkpoint_dir) => pc # "done"

IsStep(e) == e.op = "step"
Steps == SelectSeq(log, IsStep)
OfEpoch(op, e) == {i \in 1..Len(log) : log[i].op = op /\ log[i].tag = e}

\* C16: every epoch pulls exactly n_batches batches and runs train_step once
\* per pulled batch, right after its pull and before the next pull; a
\* completed call of E epochs has made E * n_batches pulls and as many
\* steps, and no pull or step follows the reading of an epoch's summary
\* for that epoch or an earlier one.
C16_OneStepPerPulledBatch ==
    /\ \A i \in 1..Len(log) :
          log[i].op = "step" =>
              /\ i > 1 /\ log[i - 1].op = "pull" /\ log[i - 1].ok
              /\ log[i - 1].tag = log[i].tag
    /\ \A i \in 1..Len(log) :
          (log[i].op = "pull" /\ i < Len(log)) =>
              /\ log[i].ok
              /\ log[i + 1].op = "step" /\ log[i + 1].tag = log[i].tag
    /\ \A i \in 1..Len(log) :
          log[i].op = "append" =>
              /\ Cardinality(OfEpoch("pull", log[i].tag)) = n_batches
              /\ Cardinality(OfEpoch("step", log[i].tag)) = n_batches
              /\ \A j \in 1..Len(log) :
                     (log[j].op \in {"pull", "step"} /\ log[j].tag <= log[i].tag)
                         => j < i
    /\ pc = "done" =>
          /\ Len(Pulls) = epochs * n_batches
          /\ Len(Steps) = epochs * n_batches
          /\ params = epochs * n_batches

\* a call of two epochs of two batches has completed
C16_Witness == pc = "done" /\ epochs = 2 /\ n_batches = 2 /\ Len(Steps) = 4

IsPrefix(s, t) == Len(s) <= Len(t) /\ SubSeq(t, 1, Len(s)) = s
Summarised == IF pc \in {"noise", "emit", "ckpt"} THEN epoch + 1 ELSE epoch

\* C17: within a call the three history lists have the same length in every
\* state, the number of epochs whose batches are done and whose summary
\* was read; a step only ever appends to them; and the report made after E
\* epochs is made from lists of exactly E entries.
C17_HistoryAppendOnly ==
    /\ [](/\ Len(discriminator_losses) = Len(generator_losses)
          /\ Len(discriminator_accuracies) = Len(generator_losses)
          /\ pc # "raised" => Len(generator_losses) = Summarised
          /\ pc = "raised" => Len(generator_losses) \in {epoch, epoch + 1}
          /\ pc = "done" =>
                 /\ Len(generator_losses) = epochs
                 /\ log_dir => /\ report = <<History>>
                                /\ \A k \in 1..3 : Len(report[1][k]) = epochs
                 /\ ~log_dir => report = <<>>)
    /\ [][/\ IsPrefix(generator_losses, generator_losses')
          /\ IsPrefix(discriminator_losses, discriminator_losses')
          /\ IsPrefix(discriminator_accuracies, discriminator_accuracies')]_vars

\* the report of a completed call of three epochs has been made
C17_Witness == pc = "done" /\ log_dir /\ epochs = 3 /\ report # <<>>

\* C18: a sample emission leaves the trainable state, the three metrics,
\* the history and the retained checkpoints unchanged, and within a call
\* the trainable state changes only in train_step.
C18_EmissionChangesNoState ==
    [][/\ pc \in {"emit", "final"} =>
              UNCHANGED <<params, gen_loss, disc_loss, disc_accuracy,
                          generator_losses, discriminator_losses,
                          discriminator_accuracies, ckpts>>
       /\ params' # params => (pc = "step" /\ pc' = "batch")]_vars

\* the emission of an epoch of two trained batches has been made
C18_Witness ==
    /\ pc = "ckpt" /\ params = 2
    /\ log[Len(log)].op = "emit" /\ log[Len(log)].ok

\* C19: every emission of a call is given a defined noise input of exactly
\* 16 rows, for any epoch count and with or without a noise_vector argument.
C19_EmissionNoiseHas16Rows ==
    \A i \in 1..Len(Emits) :
        Emits[i].noise.defined /\ Emits[i].noise.rows = num_examples_to_generate

\* C20: in a call of E >= 1 epochs the emission after the loop repeats the
\* last epoch's emission: same tag E, same noise input, same trainable
\* state, and nothing but the last epoch's checkpoint save between them.
C20_FinalEmissionRepeatsLast ==
    (pc \in {"report", "done"} /\ epochs >= 1) =>
        /\ Len(Emits) >= 2
        /\ log[Len(log)].op = "emit"
        /\ Emits[Len(Emits)].tag = epochs
        /\ Emits[Len(Emits) - 1].tag = epochs
        /\ Emits[Len(Emits)].noise = Emits[Len(Emits) - 1].noise
        /\ Emits[Len(Emits)].params = Emits[Len(Emits) - 1].params
        /\ \A i \in 1..(Len(log) - 1) :
               (log[i].op = "emit" /\ log[i].tag = epochs) =>
                   \A j \in (i + 1)..(Len(log) - 1) : log[j].op = "save"

\* a call without noise_vector has completed two trained epochs
C20_Witness ==
    /\ pc = "done" /\ noise_vector = None /\ epochs = 2 /\ n_batches = 1
    /\ Len(Emits) = 3

\* C13: a stop signal raised in the middle of an epoch is seen at the next
\* batch step: the loop is left early, at most the batch in flight is still
\* pulled, the interrupted epoch's metrics are not appended to the history
\* and no further epoch is begun.
C13_StopEndsTheLoopEarly ==
    stop.raised =>
        /\ Cardinality({i \in (stop.at + 1)..Len(log) : log[i].op = "pull"}) <= 1
        /\ \A i \in 1..Len(log) :
              /\ log[i].op = "append" => log[i].tag < stop.epoch
              /\ log[i].op = "reset" => log[i].tag <= stop.epoch
        /\ Len(generator_losses) < stop.epoch

\* C14: scale_to_range, normalize_to_zero_mean_unit_variance (clip_std false
\* or true) and unscale_data each leave the array passed as their argument as
\* it was before the call.
C14_TransformsArePure ==
    norm.op \in {"scale_to_range", "normalize", "normalize_clip", "unscale_data"}
        => norm.arg = norm.x

NonConstant(A) == ~FEq(ArrayMax(A), ArrayMin(A))
\* v taken linearly from [min(A), max(A)] onto [lo, hi]
Linear(v, A, lo, hi) ==
    FAdd(Frac(lo), FDiv(FMul(FSub(v, ArrayMin(A)), Frac(hi - lo)),
                        FSub(ArrayMax(A), ArrayMin(A))))

\* C15: for a non-constant x and any target bounds,
\* unscale_data(scale_to_range(x, -1, 1), min_val, max_val) is x taken
\* linearly from its own [min, max] onto [min_val, max_val]; the elements
\* equal to min(x) become min_val and those equal to max(x) become max_val.
C15_UnscaleOfScaleIsLinear ==
    (norm.op = "unscale_of_scale" /\ NonConstant(norm.x)) =>
        /\ norm.err = "none"
        /\ \A rc \in Cells(norm.x) :
              /\ FEq(At(norm.ret, rc), Linear(At(norm.x, rc), norm.x, norm.lo, norm.hi))
              /\ FEq(At(norm.x, rc), ArrayMin(norm.x))
                     => FEq(At(norm.ret, rc), Frac(norm.lo))
              /\ FEq(At(norm.x, rc), ArrayMax(norm.x))
                     => FEq(At(norm.ret, rc), Frac(norm.hi))

\* a round trip of an array with an element strictly between its minimum and
\* its maximum, onto bounds that differ and are not the defaults
C15_Witness ==
    /\ norm.op = "unscale_of_scale" /\ NonConstant(norm.x)
    /\ norm.lo = -1 /\ norm.hi = 255
    /\ \E rc \in Cells(norm.x) :
          /\ FLess(ArrayMin(norm.x), At(norm.x, rc))
          /\ FLess(At(norm.x, rc), ArrayMax(norm.x))
          /\ FLess(Frac(norm.lo), At(norm.ret, rc))
          /\ FLess(At(norm.ret, rc), Frac(norm.hi))

====
